---- MODULE Spec2Model ----
(***************************************************************************)
(* Model of the easyversion delta-storage engine: the content-addressed    *)
(* PatchTimeline (patches/patch_timeline.rs), the TrackedFile bound to it  *)
(* (tracked/file.rs), the recursive TrackedFolder (tracked/folder.rs) and  *)
(* the derived Version operations delete_last / clear / split              *)
(* (tracked/mod.rs).                                                       *)
(*                                                                         *)
(* Byte buffers are the residues 0..MaxByte, the empty buffer being 0.     *)
(* bsdiff stores the bytewise difference target - source, so a patch is    *)
(* modelled as the difference modulo NumContents: diff and apply are       *)
(* mutual inverses, different (source, target) pairs can yield identical   *)
(* patch bytes (which is what makes blobs shared), and a patch applied to  *)
(* another source yields another target.                                   *)
(***************************************************************************)
EXTENDS Integers, Sequences, FiniteSets, TLC

\* ---------------------------------------------------------------- bounds
MaxByte == 2
MaxChain == 4
MaxVersions == 3
MaxForkVersions == 2
MaxCommits == 2
MaxShared == 2
MaxRacePushes == 1
MaxLen == 2
MaxInfos == 3
MaxLabels == 2
MaxFaultVersions == 1

\* vec![] : the buffer every replay starts from
EmptyBuffer == 0

NumContents == MaxByte + 1
Contents == 0..MaxByte
Patches == 0..MaxByte
\* where two items are driven together an editor alternates between the
\* empty file and one other content
Written == {EmptyBuffer, MaxByte}
Indices == 0..(MaxVersions + 1)
FolderIndices == 0..(MaxCommits + 1)

\* marker of a patch file that does not exist in the timeline directory
NoBlob == -1
\* marker of a patch file that File::create has made and nothing has been
\* written to yet
Truncated == -2
\* marker of a tracked path at which no file exists any more
NoFile == -3

\* ------------------------------------------------------- tracked structure
\* Root/ { A, B/ { C } } : the tree TrackedFolder::new builds once
Files == {"A", "C"}
Folders == {"Root", "B"}
\* E/ { } : a second tree, a folder built over an empty directory
EmptyFolder == "E"
\* E/N : a path at which no file exists when the trees are built
NewFile == "N"
Paths == Files \cup {NewFile}

\* variant: every timeline is rooted in the patch store itself
patch_dir_is_store(path) == 0

\* TrackedFile::new : the timeline directory is <patch store>/<hash(path)>,
\* the hash of a path being its position among the tracked paths
patch_dir(path) == IF path = "A" THEN 1 ELSE IF path = "C" THEN 2 ELSE 3
PatchDirs == {patch_dir(f) : f \in Paths}

\* two more PatchTimeline instances, both built over the directory of "A"
Timelines == {"T1", "T2"}

VARIABLES
  live,       \* live[f]      : bytes of the file at path f
  tl,         \* tl[f]        : PatchTimeline.hashes of the TrackedFile at f
  dir,        \* dir[p][h]    : patch stored under hash h in directory p
              \*                of the patch store
  fork,       \* the item returned by the last successful split of "A"
  vcount,     \* vcount[d]    : TrackedFolder.version_count
  committed,  \* committed[f] : contents read by the commits still in tl[f]
  hist,       \* "commits" | "clean" | "dirty" : the folder calls so far
  ncommit,    \* number of successful folder commits
  pushed,     \* the patches handed to the pushes still in tl["A"]
  versions,   \* VersionInfoManager.versions : index and label of each
  project,    \* the Project over the file "A": whether it has been built,
              \* and its version_infos
  codec,      \* the buffers last handed to Patch::from_buffers, the patch
              \* made of them, and what Patch::apply last returned
  race,       \* two more PatchTimeline instances over the directory of "A":
              \* where each is in push, with which patch, and its hashes
  last        \* the last call: operation, argument, result, count before,
              \* the item it was made on and the value it returned

vars ==
  <<live, tl, dir, fork, vcount, committed, hist, ncommit, pushed, race,
    codec, versions, project, last>>

\* variant: the children are what fs::read_dir lists at the time of the call
children_read_dir(x) ==
  IF x = "Root" THEN <<"A", "B">>
  ELSE IF x = "B" THEN <<"C">>
  ELSE IF live[NewFile] # NoFile THEN <<NewFile>> ELSE <<>>

\* TrackedFolder.tracked_items, filled by TrackedFolder::new and never
\* assigned again
Children(x) ==
  IF x = "Root" THEN <<"A", "B">> ELSE IF x = "B" THEN <<"C">> ELSE <<>>

\* ------------------------------------------------------------ pure helpers
Range(s) == {s[i] : i \in 1..Len(s)}
Front(s) == SubSeq(s, 1, Len(s) - 1)

\* crate::hash over DefaultHasher: deterministic, and without collisions on
\* the bounded patch domain
Hash(patch) == 100 + 7 * patch
Hashes == {Hash(p) : p \in Patches}

PatchNew(source, target) == (target - source + NumContents) % NumContents
PatchApply(patch, source) == (source + patch) % NumContents

EmptyDir == [h \in Hashes |-> NoBlob]

\* ----------------------------------------------- Patch over byte sequences
Buffers == UNION {[1..n -> 0..MaxByte] : n \in 0..MaxLen}

\* variant: the difference is taken the wrong way round
from_buffers_swapped(source, target) ==
  LET k == IF Len(source) < Len(target) THEN Len(source) ELSE Len(target)
  IN [add   |-> [i \in 1..k |->
                   (source[i] - target[i] + NumContents) % NumContents],
      extra |-> SubSeq(target, k + 1, Len(target))]

\* Patch::from_buffers : bsdiff::diff, the bytewise difference over the part
\* that both buffers have, and the bytes target has beyond it
from_buffers(source, target) ==
  LET k == IF Len(source) < Len(target) THEN Len(source) ELSE Len(target)
  IN [add   |-> [i \in 1..k |->
                   (target[i] - source[i] + NumContents) % NumContents],
      extra |-> SubSeq(target, k + 1, Len(target))]

\* Patch::apply : bsdiff::patch, which fails on a source shorter than the
\* difference it is to be added to
patch_apply(patch, source) ==
  IF Len(source) < Len(patch.add)
  THEN [res |-> "CodecError", val |-> <<>>]
  ELSE [res |-> "Ok",
        val |-> [i \in 1..Len(patch.add) |->
                   (source[i] + patch.add[i]) % NumContents]
                \o patch.extra]

\* ------------------------------------------------------------ PatchTimeline
\* variant: a patch whose blob already exists is refused
push_refuses_duplicate(hs, d, patch) ==
  LET h == Hash(patch) IN
  IF d[h] = NoBlob
  THEN [hashes |-> Append(hs, h), dir |-> [d EXCEPT ![h] = patch],
        res |-> "Ok"]
  ELSE [hashes |-> hs, dir |-> d, res |-> "IoError"]

\* variant: the new hash is put in front of the chain
push_prepends(hs, d, patch) ==
  LET h == Hash(patch) IN
  [hashes |-> <<h>> \o hs,
   dir    |-> IF d[h] = NoBlob THEN [d EXCEPT ![h] = patch] ELSE d,
   res    |-> "Ok"]

push(hs, d, patch) ==
  LET h == Hash(patch) IN
  [hashes |-> Append(hs, h),
   dir    |-> IF d[h] = NoBlob THEN [d EXCEPT ![h] = patch] ELSE d,
   res    |-> "Ok"]

\* variant: the blob is removed without looking at the remaining chain
pop_always_removes(hs, d) ==
  IF hs = <<>>
  THEN [hashes |-> hs, dir |-> d, res |-> "NoVersionsAvailable"]
  ELSE [hashes |-> Front(hs), dir |-> [d EXCEPT ![hs[Len(hs)]] = NoBlob],
        res |-> "Ok"]

\* variant: the test of the remaining chain is inverted
pop_inverted_test(hs, d) ==
  IF hs = <<>>
  THEN [hashes |-> hs, dir |-> d, res |-> "NoVersionsAvailable"]
  ELSE LET h == hs[Len(hs)]
           rest == Front(hs)
       IN IF h \notin Range(rest)
          THEN [hashes |-> rest, dir |-> d, res |-> "Ok"]
          ELSE [hashes |-> rest, dir |-> [d EXCEPT ![h] = NoBlob],
                res |-> "Ok"]

\* variant: an empty chain is not reported (as the older Timeline::pop)
pop_empty_ok(hs, d) ==
  IF hs = <<>>
  THEN [hashes |-> hs, dir |-> d, res |-> "Ok"]
  ELSE LET h == hs[Len(hs)]
           rest == Front(hs)
       IN IF h \in Range(rest)
          THEN [hashes |-> rest, dir |-> d, res |-> "Ok"]
          ELSE IF d[h] = NoBlob
               THEN [hashes |-> rest, dir |-> d, res |-> "IoError"]
               ELSE [hashes |-> rest, dir |-> [d EXCEPT ![h] = NoBlob],
                     res |-> "Ok"]

pop(hs, d) ==
  IF hs = <<>>
  THEN [hashes |-> hs, dir |-> d, res |-> "NoVersionsAvailable"]
  ELSE LET h == hs[Len(hs)]
           rest == Front(hs)
       IN IF h \in Range(rest)
          THEN [hashes |-> rest, dir |-> d, res |-> "Ok"]
          ELSE IF d[h] = NoBlob
               THEN [hashes |-> rest, dir |-> d, res |-> "IoError"]
               ELSE [hashes |-> rest, dir |-> [d EXCEPT ![h] = NoBlob],
                     res |-> "Ok"]

\* variant: the index counts from the latest entry
get_from_end(hs, d, idx) ==
  IF idx >= Len(hs)
  THEN [res |-> "IndexOutOfRange", patch |-> NoBlob]
  ELSE IF d[hs[Len(hs) - idx]] = NoBlob
       THEN [res |-> "IoError", patch |-> NoBlob]
       ELSE [res |-> "Ok", patch |-> d[hs[Len(hs) - idx]]]

get(hs, d, idx) ==
  IF idx >= Len(hs)
  THEN [res |-> "IndexOutOfRange", patch |-> NoBlob]
  ELSE IF d[hs[idx + 1]] = NoBlob
       THEN [res |-> "IoError", patch |-> NoBlob]
       ELSE [res |-> "Ok", patch |-> d[hs[idx + 1]]]

\* -------------------------------------------------------------- TrackedFile
RECURSIVE apply_loop(_, _, _, _, _)
apply_loop(hs, d, i, index, source) ==
  IF i > index
  THEN [res |-> "Ok", val |-> source]
  ELSE LET g == get(hs, d, i)
       IN IF g.res # "Ok"
          THEN [res |-> g.res, val |-> EmptyBuffer]
          ELSE apply_loop(hs, d, i + 1, index, PatchApply(g.patch, source))

\* variant: the replay stops one patch early (0..index instead of 0..=index)
apply_exclusive(hs, d, index) ==
  IF hs = <<>>
  THEN [res |-> "NoVersionsAvailable", val |-> EmptyBuffer]
  ELSE apply_loop(hs, d, 0, index - 1, EmptyBuffer)

\* variant: the replay does not look at is_empty first
apply_unguarded(hs, d, index) ==
  apply_loop(hs, d, 0, index, EmptyBuffer)

\* variant: an index past the end is clamped to the latest version
apply_clamped(hs, d, index) ==
  IF hs = <<>>
  THEN [res |-> "NoVersionsAvailable", val |-> EmptyBuffer]
  ELSE apply_loop(hs, d, 0,
                  IF index >= Len(hs) THEN Len(hs) - 1 ELSE index,
                  EmptyBuffer)

apply(hs, d, index) ==
  IF hs = <<>>
  THEN [res |-> "NoVersionsAvailable", val |-> EmptyBuffer]
  ELSE apply_loop(hs, d, 0, index, EmptyBuffer)

\* variant: an unchanged file is not committed again
file_commit_skips_unchanged(hs, d, content) ==
  LET source == IF hs = <<>>
                THEN [res |-> "Ok", val |-> EmptyBuffer]
                ELSE apply(hs, d, Len(hs) - 1)
  IN IF source.res # "Ok"
     THEN [hashes |-> hs, dir |-> d, res |-> source.res]
     ELSE IF hs # <<>> /\ source.val = content
          THEN [hashes |-> hs, dir |-> d, res |-> "Ok"]
          ELSE push(hs, d, PatchNew(source.val, content))

\* fs::read(&self.path) fails when the file is gone
file_commit(hs, d, content) ==
  LET source == IF hs = <<>>
                THEN [res |-> "Ok", val |-> EmptyBuffer]
                ELSE apply(hs, d, Len(hs) - 1)
  IN IF source.res # "Ok"
     THEN [hashes |-> hs, dir |-> d, res |-> source.res]
     ELSE IF content = NoFile
          THEN [hashes |-> hs, dir |-> d, res |-> "IoError"]
          ELSE push(hs, d, PatchNew(source.val, content))

file_load_version(hs, d, content, index) ==
  LET c == apply(hs, d, index)
  IN IF c.res # "Ok"
     THEN [live |-> content, res |-> c.res]
     ELSE [live |-> c.val, res |-> "Ok"]

RECURSIVE pop_times(_, _, _)
pop_times(hs, d, n) ==
  IF n <= 0
  THEN [hashes |-> hs, dir |-> d, res |-> "Ok"]
  ELSE LET r == pop(hs, d)
       IN IF r.res # "Ok" THEN r ELSE pop_times(r.hashes, r.dir, n - 1)

\* variant: the version at index is kept (index+1..len is removed)
file_delete_version_keeps_index(hs, d, index) ==
  IF hs = <<>>
  THEN [hashes |-> hs, dir |-> d, res |-> "NoVersionsAvailable"]
  ELSE pop_times(hs, d, (Len(hs) - 1) - index)

\* variant: latest_version_index is not matched against None
file_delete_version_unguarded(hs, d, index) ==
  pop_times(hs, d, (Len(hs) - 1) - index + 1)

file_delete_version(hs, d, index) ==
  IF hs = <<>>
  THEN [hashes |-> hs, dir |-> d, res |-> "NoVersionsAvailable"]
  ELSE pop_times(hs, d, (Len(hs) - 1) - index + 1)

\* ------------------------------------------------- Version (derived methods)
\* Version::is_empty : len() == 0
is_empty(hs) == Len(hs) = 0

\* usize::saturating_sub
saturating_sub(a, b) == IF a < b THEN 0 ELSE a - b

\* variant: the index handed to delete is len() instead of len() - 1
delete_last_uses_len(hs, d) == file_delete_version(hs, d, Len(hs))

\* Version::delete_last : delete(len().saturating_sub(1))
delete_last(hs, d) == file_delete_version(hs, d, saturating_sub(Len(hs), 1))

\* variant: delete(0) as the older TrackedFile::delete does it, which loads
\* version 0 and pops 1..len
clear_keeps_first(hs, d) == file_delete_version_keeps_index(hs, d, 0)

\* Version::clear : delete(0)
clear(hs, d) == file_delete_version(hs, d, 0)

\* variant: the history is cleared on self instead of on the clone
split_clears_self(hs, d, content, index) ==
  LET l == file_load_version(hs, d, content, index)
  IN IF l.res # "Ok"
     THEN [live |-> content, dir |-> d, hashes |-> hs,
           other |-> <<>>, res |-> l.res]
     ELSE LET c == clear(hs, d)
          IN IF c.res # "Ok"
             THEN [live |-> l.live, dir |-> c.dir, hashes |-> c.hashes,
                   other |-> <<>>, res |-> c.res]
             ELSE LET s == file_commit(c.hashes, c.dir, l.live)
                  IN [live |-> l.live, dir |-> s.dir, hashes |-> c.hashes,
                      other |-> s.hashes, res |-> s.res]

\* variant: the clone keeps the history it was copied with
split_keeps_history(hs, d, content, index) ==
  LET l == file_load_version(hs, d, content, index)
  IN IF l.res # "Ok"
     THEN [live |-> content, dir |-> d, hashes |-> hs,
           other |-> <<>>, res |-> l.res]
     ELSE LET s == file_commit(hs, d, l.live)
          IN [live |-> l.live, dir |-> s.dir, hashes |-> hs,
              other |-> s.hashes, res |-> s.res]

\* Version::split for a TrackedFile: load(index), clone, clear and save the
\* clone.  The clone has the path and the patch directory of self; hashes
\* is the chain of self afterwards, other the chain of the returned clone.
split(hs, d, content, index) ==
  LET l == file_load_version(hs, d, content, index)
  IN IF l.res # "Ok"
     THEN [live |-> content, dir |-> d, hashes |-> hs,
           other |-> <<>>, res |-> l.res]
     ELSE LET c == clear(hs, d)
          IN IF c.res # "Ok"
             THEN [live |-> l.live, dir |-> c.dir, hashes |-> hs,
                   other |-> <<>>, res |-> c.res]
             ELSE LET s == file_commit(c.hashes, c.dir, l.live)
                  IN [live |-> l.live, dir |-> s.dir, hashes |-> hs,
                      other |-> s.hashes, res |-> s.res]

\* ------------------------------------------------------------ TrackedFolder
\* st = [tl, dir, live, vcount] is threaded through the children in order
file_do(op, index, st, f) ==
  IF op = "commit"
  THEN LET r == file_commit(st.tl[f], st.dir[patch_dir(f)], st.live[f])
       IN [st |-> [st EXCEPT !.tl[f] = r.hashes, !.dir[patch_dir(f)] = r.dir],
           res |-> r.res]
  ELSE IF op = "load_version"
  THEN LET r == file_load_version(st.tl[f], st.dir[patch_dir(f)],
                                  st.live[f], index)
       IN [st |-> [st EXCEPT !.live[f] = r.live], res |-> r.res]
  ELSE LET r == file_delete_version(st.tl[f], st.dir[patch_dir(f)], index)
       IN [st |-> [st EXCEPT !.tl[f] = r.hashes, !.dir[patch_dir(f)] = r.dir],
           res |-> r.res]

\* variant: commit does not count the new version
folder_count_forgets_commit(op, index, count) ==
  IF op = "delete_version" THEN index ELSE count

\* what a folder does to its own version_count once every child succeeded
\* variant: delete_version leaves the counter alone
folder_count_ignores_delete(op, index, count) ==
  IF op = "commit" THEN count + 1 ELSE count

\* variant: load_version sets the counter to the index it loaded
folder_count_load_sets_index(op, index, count) ==
  IF op = "commit" THEN count + 1 ELSE index

\* variant: delete_version takes one version off the counter
folder_count_delete_drops_one(op, index, count) ==
  IF op = "commit" THEN count + 1
  ELSE IF op = "delete_version" THEN (IF count = 0 THEN 0 ELSE count - 1)
  ELSE count

folder_count(op, index, count) ==
  IF op = "commit" THEN count + 1
  ELSE IF op = "delete_version" THEN index
  ELSE count

RECURSIVE item_do(_, _, _, _), each_child(_, _, _, _, _)
RECURSIVE each_child_rolls_back(_, _, _, _, _)
RECURSIVE each_child_continues(_, _, _, _, _)
\* variant: the children after a failing one are still called, and the first
\* error is returned at the end
each_child_continues(op, index, st, x, k) ==
  IF k > Len(Children(x))
  THEN [st |-> st, res |-> "Ok"]
  ELSE LET r == item_do(op, index, st, Children(x)[k])
           rest == each_child_continues(op, index, r.st, x, k + 1)
       IN IF r.res # "Ok" THEN [st |-> rest.st, res |-> r.res] ELSE rest

\* variant: a failing child undoes what the children before it did
each_child_rolls_back(op, index, st, x, k) ==
  IF k > Len(Children(x))
  THEN [st |-> st, res |-> "Ok"]
  ELSE LET r == item_do(op, index, st, Children(x)[k])
       IN IF r.res # "Ok" THEN [st |-> st, res |-> r.res]
          ELSE LET rest == each_child_rolls_back(op, index, r.st, x, k + 1)
               IN IF rest.res # "Ok" THEN [st |-> st, res |-> rest.res]
                  ELSE rest

each_child(op, index, st, x, k) ==
  IF k > Len(Children(x))
  THEN [st |-> st, res |-> "Ok"]
  ELSE LET r == item_do(op, index, st, Children(x)[k])
       IN IF r.res # "Ok" THEN r
          ELSE each_child(op, index, r.st, x, k + 1)

item_do(op, index, st, x) ==
  IF x \in Paths
  THEN file_do(op, index, st, x)
  ELSE LET r == each_child(op, index, st, x, 1)
       IN IF r.res # "Ok" THEN r
          ELSE [st |-> [r.st EXCEPT
                          !.vcount[x] = folder_count(op, index, @)],
                res |-> "Ok"]

version_count(x) == IF x \in Paths THEN Len(tl[x]) ELSE vcount[x]

\* ------------------------------------------------------------ initial state
Init ==
  /\ live = [f \in Paths |-> IF f = NewFile THEN NoFile ELSE EmptyBuffer]
  /\ tl = [f \in Paths |-> <<>>]
  /\ dir = [p \in PatchDirs |-> EmptyDir]
  /\ fork = [exists |-> FALSE, hashes |-> <<>>]
  /\ vcount = [x \in Folders \cup {EmptyFolder} |-> 0]
  /\ committed = [f \in Files |-> <<>>]
  /\ hist = "commits"
  /\ ncommit = 0
  /\ pushed = <<>>
  /\ versions = <<>>
  /\ project = [open |-> FALSE, version_infos |-> <<>>]
  /\ codec = [source |-> <<>>, target |-> <<>>,
              patch |-> from_buffers(<<>>, <<>>),
              applied |-> <<>>, res |-> "Ok", val |-> <<>>]
  /\ race = [pc |-> [t \in Timelines |-> "idle"],
             patch |-> [t \in Timelines |-> 0],
             hashes |-> [t \in Timelines |-> <<>>]]
  /\ last = [op |-> "new", arg |-> 0, res |-> "Ok", n |-> 0,
             on |-> "A", out |-> 0]

\* history bookkeeping of one call
Hist(isCommit, res) ==
  IF res # "Ok" \/ hist = "dirty" THEN "dirty"
  ELSE IF isCommit THEN hist
  ELSE "clean"

\* ------------------------------------------------- PatchTimeline, standalone
\* the timeline of "A" driven directly through push and pop
Push(patch) ==
  /\ Len(tl["A"]) < MaxChain
  /\ LET r == push(tl["A"], dir[patch_dir("A")], patch)
     IN /\ tl' = [tl EXCEPT !["A"] = r.hashes]
        /\ dir' = [dir EXCEPT ![patch_dir("A")] = r.dir]
        /\ last' = [op |-> "push", arg |-> patch, res |-> r.res,
                    n |-> Len(tl["A"]),
                    on |-> "A", out |-> 0]
        /\ pushed' = IF r.res = "Ok" THEN Append(pushed, patch) ELSE pushed
        /\ hist' = hist
  /\ UNCHANGED <<project, versions, codec, race, live, fork, vcount,
                 committed, ncommit>>

Pop ==
  /\ LET r == pop(tl["A"], dir[patch_dir("A")])
     IN /\ tl' = [tl EXCEPT !["A"] = r.hashes]
        /\ dir' = [dir EXCEPT ![patch_dir("A")] = r.dir]
        /\ last' = [op |-> "pop",
                    arg |-> IF tl["A"] = <<>> THEN 0
                            ELSE tl["A"][Len(tl["A"])],
                    res |-> r.res,
                    n |-> Len(tl["A"]),
                    on |-> "A", out |-> 0]
        /\ pushed' = SubSeq(pushed, 1, Len(r.hashes))
        /\ hist' = hist
  /\ UNCHANGED <<project, versions, codec, race, live, fork, vcount,
                 committed, ncommit>>

Get(idx) ==
  /\ LET r == get(tl["A"], dir[patch_dir("A")], idx)
     IN last' = [op |-> "get", arg |-> idx, res |-> r.res,
                 n |-> Len(tl["A"]), on |-> "A", out |-> r.patch]
  /\ UNCHANGED <<project, versions, codec, race, live, tl, dir, fork, vcount,
                 committed, hist, ncommit, pushed>>

ChainIndices == 0..MaxChain

NextTimeline ==
  \/ \E p \in Patches : Push(p)
  \/ Pop
  \/ \E i \in ChainIndices : Get(i)

SpecTimeline == Init /\ [][NextTimeline]_vars

\* ------------------------------------------------------ TrackedFile, direct
\* an editor changes the live file between calls
Write(f, c) ==
  /\ live[f] # c
  /\ live' = [live EXCEPT ![f] = c]
  /\ last' = [op |-> "write", arg |-> c, res |-> "Ok", n |-> Len(tl[f]),
              on |-> f, out |-> 0]
  /\ UNCHANGED <<project, versions, codec, race, pushed, tl, dir, fork,
                 vcount, committed, hist, ncommit>>

Commit(f) ==
  /\ Len(tl[f]) < MaxVersions
  /\ LET r == file_commit(tl[f], dir[patch_dir(f)], live[f])
     IN /\ tl' = [tl EXCEPT ![f] = r.hashes]
        /\ dir' = [dir EXCEPT ![patch_dir(f)] = r.dir]
        /\ committed' = IF r.res = "Ok"
                        THEN [committed EXCEPT ![f] = Append(@, live[f])]
                        ELSE committed
        /\ last' = [op |-> "commit", arg |-> 0, res |-> r.res,
                    n |-> Len(tl[f]),
                    on |-> f, out |-> 0]
        /\ hist' = hist
  /\ UNCHANGED <<project, versions, codec, race, pushed, live, fork, vcount,
                 ncommit>>

LoadVersion(f, index) ==
  /\ LET r == file_load_version(tl[f], dir[patch_dir(f)], live[f], index)
     IN /\ live' = [live EXCEPT ![f] = r.live]
        /\ last' = [op |-> "load_version", arg |-> index, res |-> r.res,
                    n |-> Len(tl[f]),
                    on |-> f, out |-> 0]
        /\ hist' = hist
  /\ UNCHANGED <<project, versions, codec, race, pushed, tl, dir, fork,
                 vcount, committed, ncommit>>

DeleteVersion(f, index) ==
  /\ LET r == file_delete_version(tl[f], dir[patch_dir(f)], index)
     IN /\ tl' = [tl EXCEPT ![f] = r.hashes]
        /\ dir' = [dir EXCEPT ![patch_dir(f)] = r.dir]
        /\ committed' = [committed EXCEPT
                           ![f] = SubSeq(@, 1, Len(r.hashes))]
        /\ last' = [op |-> "delete_version", arg |-> index, res |-> r.res,
                    n |-> Len(tl[f]), on |-> f,
                    out |-> IF index < Len(tl[f]) THEN tl[f][index + 1]
                                                  ELSE 0]
        /\ hist' = hist
  /\ UNCHANGED <<project, versions, codec, race, pushed, live, fork, vcount,
                 ncommit>>

DeleteLast(f) ==
  /\ LET r == delete_last(tl[f], dir[patch_dir(f)])
     IN /\ tl' = [tl EXCEPT ![f] = r.hashes]
        /\ dir' = [dir EXCEPT ![patch_dir(f)] = r.dir]
        /\ committed' = [committed EXCEPT
                           ![f] = SubSeq(@, 1, Len(r.hashes))]
        /\ last' = [op |-> "delete_last", arg |-> 0, res |-> r.res,
                    n |-> Len(tl[f]), on |-> f, out |-> 0]
        /\ hist' = hist
  /\ UNCHANGED <<project, versions, codec, race, pushed, live, fork, vcount,
                 ncommit>>

Clear(f) ==
  /\ LET r == clear(tl[f], dir[patch_dir(f)])
     IN /\ tl' = [tl EXCEPT ![f] = r.hashes]
        /\ dir' = [dir EXCEPT ![patch_dir(f)] = r.dir]
        /\ committed' = [committed EXCEPT
                           ![f] = SubSeq(@, 1, Len(r.hashes))]
        /\ last' = [op |-> "clear", arg |-> 0, res |-> r.res,
                    n |-> Len(tl[f]), on |-> f, out |-> 0]
        /\ hist' = hist
  /\ UNCHANGED <<project, versions, codec, race, pushed, live, fork, vcount,
                 ncommit>>

NextFile ==
  \/ \E c \in Contents : Write("A", c)
  \/ Commit("A")
  \/ \E i \in Indices : LoadVersion("A", i)
  \/ \E i \in Indices : DeleteVersion("A", i)
  \/ DeleteLast("A")
  \/ Clear("A")

SpecFile == Init /\ [][NextFile]_vars

\* ----------------------------------------------- TrackedFile and its fork
Split(index) ==
  /\ LET r == split(tl["A"], dir[patch_dir("A")], live["A"], index)
     IN /\ live' = [live EXCEPT !["A"] = r.live]
        /\ dir' = [dir EXCEPT ![patch_dir("A")] = r.dir]
        /\ tl' = [tl EXCEPT !["A"] = r.hashes]
        /\ committed' = [committed EXCEPT
                           !["A"] = SubSeq(@, 1, Len(r.hashes))]
        /\ fork' = IF r.res = "Ok"
                   THEN [exists |-> TRUE, hashes |-> r.other]
                   ELSE fork
        /\ last' = [op |-> "split", arg |-> index, res |-> r.res,
                    n |-> Len(tl["A"]),
                    on |-> "A", out |-> 0]
        /\ hist' = hist
  /\ UNCHANGED <<project, versions, codec, race, pushed, vcount, ncommit>>

ForkCommit ==
  /\ fork.exists
  /\ Len(fork.hashes) < MaxForkVersions
  /\ LET r == file_commit(fork.hashes, dir[patch_dir("A")], live["A"])
     IN /\ fork' = [fork EXCEPT !.hashes = r.hashes]
        /\ dir' = [dir EXCEPT ![patch_dir("A")] = r.dir]
        /\ last' = [op |-> "fork_commit", arg |-> 0, res |-> r.res,
                    n |-> Len(fork.hashes),
                    on |-> "fork", out |-> 0]
        /\ hist' = hist
  /\ UNCHANGED <<project, versions, codec, race, pushed, live, tl, vcount,
                 committed, ncommit>>

ForkLoadVersion(index) ==
  /\ fork.exists
  /\ LET r == file_load_version(fork.hashes, dir[patch_dir("A")],
                                live["A"], index)
     IN /\ live' = [live EXCEPT !["A"] = r.live]
        /\ last' = [op |-> "fork_load_version", arg |-> index,
                    res |-> r.res, n |-> Len(fork.hashes),
                    on |-> "fork", out |-> 0]
        /\ hist' = hist
  /\ UNCHANGED <<project, versions, codec, race, pushed, tl, dir, fork,
                 vcount, committed, ncommit>>

ForkDeleteVersion(index) ==
  /\ fork.exists
  /\ LET r == file_delete_version(fork.hashes, dir[patch_dir("A")], index)
     IN /\ fork' = [fork EXCEPT !.hashes = r.hashes]
        /\ dir' = [dir EXCEPT ![patch_dir("A")] = r.dir]
        /\ last' = [op |-> "fork_delete_version", arg |-> index,
                    res |-> r.res, n |-> Len(fork.hashes),
                    on |-> "fork", out |-> 0]
        /\ hist' = hist
  /\ UNCHANGED <<project, versions, codec, race, pushed, live, tl, vcount,
                 committed, ncommit>>

ForkIndices == 0..MaxForkVersions

NextFork ==
  \/ \E c \in Written : Write("A", c)
  \/ Commit("A")
  \/ \E i \in ForkIndices : LoadVersion("A", i)
  \/ \E i \in ForkIndices : DeleteVersion("A", i)
  \/ \E i \in ForkIndices : Split(i)
  \/ ForkCommit
  \/ \E i \in ForkIndices : ForkLoadVersion(i)
  \/ \E i \in ForkIndices : ForkDeleteVersion(i)

SpecFork == Init /\ [][NextFork]_vars

\* ------------------------------- PatchTimeline::push, statement by statement
\* the two instances of Timelines, used from two threads; a push that has
\* been started runs to its end
\* push is called: let hash = hash(patch); let path = self.patch_path(hash)
RaceCall(t, patch) ==
  /\ race.pc[t] = "idle"
  /\ Len(race.hashes[t]) < MaxRacePushes
  /\ race' = [race EXCEPT !.pc[t] = "exists", !.patch[t] = patch]
  /\ UNCHANGED <<project, versions, codec, live, tl, dir, fork, vcount,
                 committed, hist, ncommit, pushed, last>>

\* if !path.exists()
RaceExists(t) ==
  /\ race.pc[t] = "exists"
  /\ race' = [race EXCEPT
                !.pc[t] = IF dir[patch_dir("A")][Hash(race.patch[t])] = NoBlob
                          THEN "create" ELSE "push"]
  /\ UNCHANGED <<project, versions, codec, live, tl, dir, fork, vcount,
                 committed, hist, ncommit, pushed, last>>

\* File::create(&path) : makes the file, or empties the one that is there
RaceCreate(t) ==
  /\ race.pc[t] = "create"
  /\ dir' = [dir EXCEPT ![patch_dir("A")][Hash(race.patch[t])] = Truncated]
  /\ race' = [race EXCEPT !.pc[t] = "write"]
  /\ UNCHANGED <<project, versions, codec, live, tl, fork, vcount, committed,
                 hist, ncommit, pushed, last>>

\* patch.write_to(&mut file)
RaceWrite(t) ==
  /\ race.pc[t] = "write"
  /\ dir' = [dir EXCEPT
               ![patch_dir("A")][Hash(race.patch[t])] = race.patch[t]]
  /\ race' = [race EXCEPT !.pc[t] = "push"]
  /\ UNCHANGED <<project, versions, codec, live, tl, fork, vcount, committed,
                 hist, ncommit, pushed, last>>

\* self.hashes.push(hash); Ok(())
RaceReturn(t) ==
  /\ race.pc[t] = "push"
  /\ race' = [race EXCEPT
                !.pc[t] = "idle",
                !.hashes[t] = Append(@, Hash(race.patch[t]))]
  /\ last' = [op |-> "race_push", arg |-> race.patch[t], res |-> "Ok",
              n |-> Len(race.hashes[t]), on |-> t, out |-> 0]
  /\ UNCHANGED <<project, versions, codec, live, tl, dir, fork, vcount,
                 committed, hist, ncommit, pushed>>

\* get on an instance that is not inside push; what parsing a file without
\* content returns is left open
RaceGet(t, idx) ==
  /\ race.pc[t] = "idle"
  /\ LET r == get(race.hashes[t], dir[patch_dir("A")], idx)
     IN \E res \in {"Ok", "CodecError"} :
          /\ r.patch # Truncated => res = "Ok"
          /\ last' = [op |-> "race_get", arg |-> idx,
                      res |-> IF r.res # "Ok" THEN r.res ELSE res,
                      n |-> Len(race.hashes[t]), on |-> t, out |-> r.patch]
  /\ UNCHANGED <<project, versions, codec, live, tl, dir, fork, vcount,
                 committed, hist, ncommit, pushed, race>>

RaceIndices == 0..MaxRacePushes

NextRace ==
  \/ \E t \in Timelines, p \in Patches : RaceCall(t, p)
  \/ \E t \in Timelines : RaceExists(t)
  \/ \E t \in Timelines : RaceCreate(t)
  \/ \E t \in Timelines : RaceWrite(t)
  \/ \E t \in Timelines : RaceReturn(t)
  \/ \E t \in Timelines, i \in RaceIndices : RaceGet(t, i)

SpecRace == Init /\ [][NextRace]_vars

\* ------------------------------------- PatchTimeline::push, with I/O errors
\* File::create(&path)? returns the error: no file is made
RaceCreateFails(t) ==
  /\ race.pc[t] = "create"
  /\ race' = [race EXCEPT !.pc[t] = "idle"]
  /\ last' = [op |-> "race_push", arg |-> race.patch[t], res |-> "IoError",
              n |-> Len(race.hashes[t]), on |-> t, out |-> 0]
  /\ UNCHANGED <<project, versions, codec, live, tl, dir, fork, vcount,
                 committed, hist, ncommit, pushed>>

\* patch.write_to(&mut file)? returns the error: the file that File::create
\* made stays as it is, without the bytes of the patch
RaceWriteFails(t) ==
  /\ race.pc[t] = "write"
  /\ race' = [race EXCEPT !.pc[t] = "idle"]
  /\ last' = [op |-> "race_push", arg |-> race.patch[t], res |-> "IoError",
              n |-> Len(race.hashes[t]), on |-> t, out |-> 0]
  /\ UNCHANGED <<project, versions, codec, live, tl, dir, fork, vcount,
                 committed, hist, ncommit, pushed>>

\* one instance alone on its directory, whose pushes can fail
NextPushFail ==
  \/ \E p \in Patches : RaceCall("T1", p)
  \/ RaceExists("T1")
  \/ RaceCreate("T1")
  \/ RaceCreateFails("T1")
  \/ RaceWrite("T1")
  \/ RaceWriteFails("T1")
  \/ RaceReturn("T1")
  \/ \E i \in RaceIndices : RaceGet("T1", i)

SpecPushFail == Init /\ [][NextPushFail]_vars

\* -------------------------------------------------------------------- Patch
\* one patch is made and then applied
FromBuffers(source, target) ==
  /\ last.op \notin {"from_buffers", "patch_apply"}
  /\ codec' = [source |-> source, target |-> target,
               patch |-> from_buffers(source, target),
               applied |-> <<>>, res |-> "Ok", val |-> <<>>]
  /\ last' = [op |-> "from_buffers", arg |-> Len(source), res |-> "Ok",
              n |-> Len(target), on |-> "P", out |-> 0]
  /\ UNCHANGED <<project, versions, live, tl, dir, fork, vcount, committed,
                 hist, ncommit, pushed, race>>

\* the patch is applied to the buffer it was made from, or to another one
PatchApplyTo(source) ==
  /\ last.op = "from_buffers"
  /\ LET r == patch_apply(codec.patch, source)
     IN /\ codec' = [codec EXCEPT !.applied = source, !.res = r.res,
                                  !.val = r.val]
        /\ last' = [op |-> "patch_apply", arg |-> Len(source),
                    res |-> r.res, n |-> Len(codec.target), on |-> "P",
                    out |-> 0]
  /\ UNCHANGED <<project, versions, live, tl, dir, fork, vcount, committed,
                 hist, ncommit, pushed, race>>

NextPatch ==
  \/ \E s, t \in Buffers : FromBuffers(s, t)
  \/ \E s \in {codec.source, codec.target} : PatchApplyTo(s)

SpecPatch == Init /\ [][NextPatch]_vars

\* ------------------------------------------------------------ TrackedBytes
\* Patch::compress / Patch::decompress : bzip2, a recoding of the patch
\* bytes that decompress undoes
compress(data) == MaxByte - data
decompress(data) == MaxByte - data

\* TrackedBytes::load_patches over the first k paths, each through
\* apply_patch : open, decompress, apply
RECURSIVE load_patches(_, _, _, _, _)
load_patches(paths, d, i, k, source) ==
  IF i > k
  THEN [res |-> "Ok", val |-> source]
  ELSE IF d[paths[i]] = NoBlob
       THEN [res |-> "IoError", val |-> EmptyBuffer]
       ELSE load_patches(paths, d, i + 1, k,
                         PatchApply(decompress(d[paths[i]]), source))

\* TrackedBytes::load : &self.patch_paths[..=patch_index], a slice that
\* panics when patch_index is not below the length
bytes_load(paths, d, patch_index) ==
  IF patch_index >= Len(paths)
  THEN [res |-> "Panic", val |-> EmptyBuffer]
  ELSE load_patches(paths, d, 1, patch_index + 1, EmptyBuffer)

\* TrackedBytes::save : the patch from the latest content to target is
\* compressed, written under its id and its path appended
bytes_save(paths, d, target) ==
  LET s == load_patches(paths, d, 1, Len(paths), EmptyBuffer)
  IN IF s.res # "Ok"
     THEN [hashes |-> paths, dir |-> d, res |-> s.res]
     ELSE LET data == compress(PatchNew(s.val, target))
          IN [hashes |-> Append(paths, Hash(data)),
              dir |-> [d EXCEPT ![Hash(data)] = data],
              res |-> "Ok"]

\* tl["A"] holds the patch_paths of a TrackedBytes over the directory of "A"
BytesSave(target) ==
  /\ Len(tl["A"]) < MaxVersions
  /\ LET r == bytes_save(tl["A"], dir[patch_dir("A")], target)
     IN /\ tl' = [tl EXCEPT !["A"] = r.hashes]
        /\ dir' = [dir EXCEPT ![patch_dir("A")] = r.dir]
        /\ committed' = IF r.res = "Ok"
                        THEN [committed EXCEPT !["A"] = Append(@, target)]
                        ELSE committed
        /\ last' = [op |-> "bytes_save", arg |-> target, res |-> r.res,
                    n |-> Len(tl["A"]), on |-> "A", out |-> 0]
  /\ UNCHANGED <<project, versions, codec, live, fork, vcount, hist, ncommit,
                 pushed, race>>

BytesLoad(patch_index) ==
  /\ LET r == bytes_load(tl["A"], dir[patch_dir("A")], patch_index)
     IN last' = [op |-> "bytes_load", arg |-> patch_index, res |-> r.res,
                 n |-> Len(tl["A"]), on |-> "A", out |-> r.val]
  /\ UNCHANGED <<project, versions, codec, live, tl, dir, fork, vcount,
                 committed, hist, ncommit, pushed, race>>

NextBytes ==
  \/ \E c \in Contents : BytesSave(c)
  \/ \E i \in Indices : BytesLoad(i)

SpecBytes == Init /\ [][NextBytes]_vars

\* ------------------------------------------------------- VersionInfoManager
\* a VersionInfo without label carries NoLabel
NoLabel == 0
Labels == 1..MaxLabels
VersionIdentifiers ==
  [kind : {"Index"}, val : 0..MaxInfos] \cup [kind : {"Label"}, val : Labels]

\* VersionInfo::new(index)
VersionInfoNew(index) == [index |-> index, label |-> NoLabel]

\* VersionInfoManager::contains_label
contains_label(vs, label) == \E p \in 1..Len(vs) : vs[p].label = label

\* VersionInfoManager::get_mut of version_info_manager/mod.rs : the position
\* of the version an identifier names, 0 for None; an index is a position
\* of the vector, a label names the first version that carries it
get_mut(vs, id) ==
  IF id.kind = "Index"
  THEN IF id.val < Len(vs) THEN id.val + 1 ELSE 0
  ELSE IF contains_label(vs, id.val)
       THEN CHOOSE p \in 1..Len(vs) :
              /\ vs[p].label = id.val
              /\ \A q \in 1..(p - 1) : vs[q].label # id.val
       ELSE 0

\* variant: the label is assigned without looking for it first
set_label_unchecked(vs, id, label) ==
  LET p == get_mut(vs, id)
  IN [versions |-> IF p = 0 THEN vs ELSE [vs EXCEPT ![p].label = label],
      res |-> "Ok"]

\* VersionInfoManager::set_label of version_info_manager/mod.rs
set_label(vs, id, label) ==
  IF contains_label(vs, label)
  THEN [versions |-> vs, res |-> "DuplicateLabel"]
  ELSE LET p == get_mut(vs, id)
       IN [versions |-> IF p = 0 THEN vs ELSE [vs EXCEPT ![p].label = label],
           res |-> "Ok"]

\* VersionInfoManager::add_version
add_version(vs) == Append(vs, VersionInfoNew(Len(vs)))

\* variant: only the version found is taken out (Vec::remove)
remove_version_only_that(vs, id) ==
  LET p == get_mut(vs, id)
  IN IF p = 0 THEN vs
     ELSE SubSeq(vs, 1, p - 1) \o SubSeq(vs, p + 1, Len(vs))

\* VersionInfoManager::remove_version : truncate(index of the version found)
remove_version(vs, id) ==
  LET p == get_mut(vs, id)
  IN IF p = 0 THEN vs ELSE SubSeq(vs, 1, vs[p].index)

\* the identifier of a call is kept in last as on (its kind) and n (its
\* value); out is the label the version named by it carried before
AddVersion ==
  /\ Len(versions) < MaxInfos
  /\ versions' = add_version(versions)
  /\ last' = [op |-> "add_version", arg |-> 0, res |-> "Ok",
              n |-> Len(versions), on |-> "Index", out |-> 0]
  /\ UNCHANGED <<project, live, tl, dir, fork, vcount, committed, hist,
                 ncommit, pushed, race, codec>>

SetLabel(id, label) ==
  /\ LET r == set_label(versions, id, label)
         p == get_mut(versions, id)
     IN /\ versions' = r.versions
        /\ last' = [op |-> "set_label", arg |-> label, res |-> r.res,
                    n |-> id.val, on |-> id.kind,
                    out |-> IF p = 0 THEN NoLabel ELSE versions[p].label]
  /\ UNCHANGED <<project, live, tl, dir, fork, vcount, committed, hist,
                 ncommit, pushed, race, codec>>

RemoveVersion(id) ==
  /\ versions' = remove_version(versions, id)
  /\ last' = [op |-> "remove_version", arg |-> 0, res |-> "Ok",
              n |-> id.val, on |-> id.kind, out |-> 0]
  /\ UNCHANGED <<project, live, tl, dir, fork, vcount, committed, hist,
                 ncommit, pushed, race, codec>>

NextInfo ==
  \/ AddVersion
  \/ \E id \in VersionIdentifiers, label \in Labels : SetLabel(id, label)
  \/ \E id \in VersionIdentifiers : RemoveVersion(id)

SpecInfo == Init /\ [][NextInfo]_vars

\* VersionInfoManager::clear
manager_clear(vs) == <<>>

\* VersionInfoManager::fork : clone, clear, add_version
manager_fork(vs) == add_version(manager_clear(vs))

ManagerClear ==
  /\ versions' = manager_clear(versions)
  /\ last' = [op |-> "manager_clear", arg |-> 0, res |-> "Ok",
              n |-> Len(versions), on |-> "Index", out |-> 0]
  /\ UNCHANGED <<project, live, tl, dir, fork, vcount, committed, hist,
                 ncommit, pushed, race, codec>>

\* fork takes &self and returns a new manager; the calls that follow are
\* made on the one returned
ManagerFork ==
  /\ versions' = manager_fork(versions)
  /\ last' = [op |-> "manager_fork", arg |-> 0, res |-> "Ok",
              n |-> Len(versions), on |-> "Index", out |-> 0]
  /\ UNCHANGED <<project, live, tl, dir, fork, vcount, committed, hist,
                 ncommit, pushed, race, codec>>

NextManager ==
  \/ AddVersion
  \/ \E id \in VersionIdentifiers, label \in Labels : SetLabel(id, label)
  \/ \E id \in VersionIdentifiers : RemoveVersion(id)
  \/ ManagerClear
  \/ ManagerFork

SpecManager == Init /\ [][NextManager]_vars

\* ------------------------------------- VersionInfoManager of version_info.rs
\* VersionInfoManager::get_mut of version_info.rs : an index names the first
\* version whose own index field equals it
version_info_get_mut(vs, id) ==
  LET hit(p) == IF id.kind = "Index" THEN vs[p].index = id.val
                                     ELSE vs[p].label = id.val
  IN IF \E p \in 1..Len(vs) : hit(p)
     THEN CHOOSE p \in 1..Len(vs) : hit(p) /\ \A q \in 1..(p - 1) : ~hit(q)
     ELSE 0

\* variant: an identifier that names no version is passed over
version_info_set_label_ignores_missing(vs, id, label) ==
  IF contains_label(vs, label)
  THEN [versions |-> vs, res |-> "VersionIdentifierNotFound"]
  ELSE LET p == version_info_get_mut(vs, id)
       IN [versions |-> IF p = 0 THEN vs ELSE [vs EXCEPT ![p].label = label],
           res |-> "Ok"]

\* VersionInfoManager::set_label of version_info.rs : a label already carried
\* and an identifier that names no version both give
\* VersionIdentifierNotFound
version_info_set_label(vs, id, label) ==
  IF contains_label(vs, label)
  THEN [versions |-> vs, res |-> "VersionIdentifierNotFound"]
  ELSE LET p == version_info_get_mut(vs, id)
       IN IF p # 0
          THEN [versions |-> [vs EXCEPT ![p].label = label], res |-> "Ok"]
          ELSE [versions |-> vs, res |-> "VersionIdentifierNotFound"]

\* VersionInfoManager::add_version_info
add_version_info(vs) == Append(vs, VersionInfoNew(Len(vs)))

AddVersionInfo ==
  /\ Len(versions) < MaxInfos
  /\ versions' = add_version_info(versions)
  /\ last' = [op |-> "add_version_info", arg |-> 0, res |-> "Ok",
              n |-> Len(versions), on |-> "Index", out |-> 0]
  /\ UNCHANGED <<project, live, tl, dir, fork, vcount, committed, hist,
                 ncommit, pushed, race, codec>>

VersionInfoSetLabel(id, label) ==
  /\ LET r == version_info_set_label(versions, id, label)
         p == version_info_get_mut(versions, id)
     IN /\ versions' = r.versions
        /\ last' = [op |-> "version_info_set_label", arg |-> label,
                    res |-> r.res, n |-> id.val, on |-> id.kind,
                    out |-> IF p = 0 THEN NoLabel ELSE versions[p].label]
  /\ UNCHANGED <<project, live, tl, dir, fork, vcount, committed, hist,
                 ncommit, pushed, race, codec>>

NextVersionInfo ==
  \/ AddVersionInfo
  \/ \E id \in VersionIdentifiers, label \in Labels :
       VersionInfoSetLabel(id, label)

SpecVersionInfo == Init /\ [][NextVersionInfo]_vars

\* ------------------------------------------------------------------ Project
\* Timeline::push of timeline.rs : the patch file is written on every push
timeline_push(hs, d, patch) ==
  [hashes |-> Append(hs, Hash(patch)),
   dir |-> [d EXCEPT ![Hash(patch)] = patch],
   res |-> "Ok"]

\* TrackedFile::apply of tracked_file.rs : the patches 0..=index are
\* replayed, an index the timeline does not have being passed over
RECURSIVE tracked_file_apply_loop(_, _, _, _, _)
tracked_file_apply_loop(hs, d, i, index, source) ==
  IF i > index
  THEN [res |-> "Ok", val |-> source]
  ELSE IF i >= Len(hs)
  THEN tracked_file_apply_loop(hs, d, i + 1, index, source)
  ELSE IF d[hs[i + 1]] = NoBlob
  THEN [res |-> "IoError", val |-> EmptyBuffer]
  ELSE tracked_file_apply_loop(hs, d, i + 1, index,
                               PatchApply(d[hs[i + 1]], source))

tracked_file_apply(hs, d, index) ==
  tracked_file_apply_loop(hs, d, 0, index, EmptyBuffer)

\* TrackedFile::save of tracked_file.rs
tracked_file_save(hs, d, content) ==
  LET source == tracked_file_apply(hs, d, saturating_sub(Len(hs), 1))
  IN IF source.res # "Ok"
     THEN [hashes |-> hs, dir |-> d, res |-> source.res]
     ELSE IF content = NoFile
          THEN [hashes |-> hs, dir |-> d, res |-> "IoError"]
          ELSE timeline_push(hs, d, PatchNew(source.val, content))

\* TrackedFile::load of tracked_file.rs
tracked_file_load(hs, d, content, index) ==
  LET c == tracked_file_apply(hs, d, index)
  IN IF c.res # "Ok"
     THEN [live |-> content, res |-> c.res]
     ELSE [live |-> c.val, res |-> "Ok"]

\* Project::with_patch_dir over the path of a regular file : the item is
\* saved once and version_infos starts empty; a path at which nothing
\* exists is neither a file nor a directory
with_patch_dir(hs, d, content) ==
  IF content = NoFile
  THEN [hashes |-> hs, dir |-> d, res |-> "InvalidInput",
        version_infos |-> <<>>]
  ELSE LET r == tracked_file_save(hs, d, content)
       IN [hashes |-> r.hashes, dir |-> r.dir, res |-> r.res,
           version_infos |-> <<>>]

\* Project::save : the item is saved, then the description is pushed
project_save(infos, hs, d, content, version_info) ==
  LET r == tracked_file_save(hs, d, content)
  IN [hashes |-> r.hashes, dir |-> r.dir, res |-> r.res,
      version_infos |-> IF r.res = "Ok" THEN Append(infos, version_info)
                                        ELSE infos]

ProjectNew ==
  /\ ~project.open
  /\ LET r == with_patch_dir(tl["A"], dir[patch_dir("A")], live["A"])
     IN /\ tl' = [tl EXCEPT !["A"] = r.hashes]
        /\ dir' = [dir EXCEPT ![patch_dir("A")] = r.dir]
        /\ project' = [open |-> r.res = "Ok",
                       version_infos |-> r.version_infos]
        /\ last' = [op |-> "with_patch_dir", arg |-> 0, res |-> r.res,
                    n |-> Len(tl["A"]), on |-> "A", out |-> 0]
  /\ UNCHANGED <<versions, codec, race, pushed, live, fork, vcount,
                 committed, hist, ncommit>>

\* the description handed to save names the content that is being saved
ProjectSave ==
  /\ project.open
  /\ Len(tl["A"]) < MaxVersions
  /\ LET r == project_save(project.version_infos, tl["A"],
                           dir[patch_dir("A")], live["A"], live["A"])
     IN /\ tl' = [tl EXCEPT !["A"] = r.hashes]
        /\ dir' = [dir EXCEPT ![patch_dir("A")] = r.dir]
        /\ project' = [project EXCEPT !.version_infos = r.version_infos]
        /\ last' = [op |-> "project_save", arg |-> live["A"],
                    res |-> r.res, n |-> Len(tl["A"]), on |-> "A",
                    out |-> 0]
  /\ UNCHANGED <<versions, codec, race, pushed, live, fork, vcount,
                 committed, hist, ncommit>>

\* Project::load
ProjectLoad(version) ==
  /\ project.open
  /\ LET r == tracked_file_load(tl["A"], dir[patch_dir("A")], live["A"],
                                version)
     IN /\ live' = [live EXCEPT !["A"] = r.live]
        /\ last' = [op |-> "project_load", arg |-> version, res |-> r.res,
                    n |-> Len(tl["A"]), on |-> "A", out |-> r.live]
  /\ UNCHANGED <<versions, codec, race, pushed, tl, dir, fork, vcount,
                 committed, hist, ncommit, project>>

\* ------------------------------------------------------------ construction
\* what a path can be on disk
Missing == 0
RegularFile == 1
Directory == 2
Special == 3
PathKinds == {Missing, RegularFile, Directory, Special}

\* TrackedFile::new : only existence is looked at
file_new(kind) == IF kind = Missing THEN "FileDoesntExist" ELSE "Ok"

\* TrackedFolder::new : existence, then fs::read_dir, which fails on
\* anything but a directory
folder_new(kind) ==
  IF kind = Missing THEN "FolderDoesntExist"
  ELSE IF kind # Directory THEN "ReadFolderError"
  ELSE "Ok"

\* TrackedItem::new : is_file, is_dir, else an error
item_new(kind) ==
  IF kind = RegularFile THEN file_new(kind)
  ELSE IF kind = Directory THEN folder_new(kind)
  ELSE "NotFileOrFolder"

\* an item is built over a path outside the tracked ones; the item itself
\* is not used further
New(ctor, kind) ==
  /\ last' = [op |-> ctor, arg |-> kind,
              res |-> CASE ctor = "TrackedFile::new" -> file_new(kind)
                        [] ctor = "TrackedFolder::new" -> folder_new(kind)
                        [] OTHER -> item_new(kind),
              n |-> 0, on |-> "P", out |-> 0]
  /\ UNCHANGED <<project, versions, codec, race, live, tl, dir, fork, vcount,
                 committed, hist, ncommit, pushed>>

Constructors == {"TrackedItem::new", "TrackedFile::new", "TrackedFolder::new"}

\* ------------------------------------- two TrackedFiles over one patch store
\* the files A and C, built with the same patch store, each called on its own
StoreCommit(f) == Len(tl[f]) < MaxShared /\ Commit(f)

StoreIndices == 0..MaxShared

NextStore ==
  \/ \E f \in Files, c \in Written : Write(f, c)
  \/ \E f \in Files : StoreCommit(f)
  \/ \E f \in Files, i \in StoreIndices : LoadVersion(f, i)
  \/ \E f \in Files, i \in StoreIndices : DeleteVersion(f, i)
  \/ \E ctor \in Constructors, kind \in PathKinds : New(ctor, kind)

SpecStore == Init /\ [][NextStore]_vars

\* ------------------------------------------------- TrackedFolder, from Root
FolderDo(op, index) ==
  /\ LET r == item_do(op, index,
                      [tl |-> tl, dir |-> dir, live |-> live,
                       vcount |-> vcount], "Root")
     IN /\ tl' = r.st.tl
        /\ dir' = r.st.dir
        /\ live' = r.st.live
        /\ vcount' = r.st.vcount
        /\ last' = [op |-> op, arg |-> index, res |-> r.res,
                    n |-> vcount["Root"],
                    on |-> "Root", out |-> 0]
        /\ hist' = Hist(op = "commit", r.res)
        /\ ncommit' = IF op = "commit" /\ r.res = "Ok"
                      THEN ncommit + 1 ELSE ncommit
  /\ UNCHANGED <<project, versions, codec, race, pushed, fork, committed>>

FolderCommit == ncommit < MaxCommits /\ FolderDo("commit", 0)
FolderLoadVersion(index) == FolderDo("load_version", index)
FolderDeleteVersion(index) == FolderDo("delete_version", index)

NextFolder ==
  \/ \E f \in Files, c \in Written : Write(f, c)
  \/ FolderCommit
  \/ \E i \in FolderIndices : FolderLoadVersion(i)
  \/ \E i \in FolderIndices : FolderDeleteVersion(i)

SpecFolder == Init /\ [][NextFolder]_vars

\* ------------------------- TrackedFolder, from Root, with files that vanish
\* the file at a tracked path is removed from outside the program
Unlink(f) ==
  /\ live[f] # NoFile
  /\ live' = [live EXCEPT ![f] = NoFile]
  /\ last' = [op |-> "unlink", arg |-> 0, res |-> "Ok", n |-> Len(tl[f]),
              on |-> f, out |-> 0]
  /\ UNCHANGED <<project, versions, codec, race, pushed, tl, dir, fork,
                 vcount, committed, hist, ncommit>>

\* a failed commit leaves versions behind in the children before the failing
\* one, so the chains are bounded next to the count of commits
UnlinkCommit ==
  /\ \A f \in Files : Len(tl[f]) < MaxCommits
  /\ FolderCommit

NextUnlink ==
  \/ \E f \in Files, c \in Written : Write(f, c)
  \/ \E f \in Files : Unlink(f)
  \/ UnlinkCommit
  \/ \E i \in FolderIndices : FolderLoadVersion(i)

SpecUnlink == Init /\ [][NextUnlink]_vars

\* ------------------ TrackedFolder, from Root, with files and blobs that vanish
\* a patch file some chain entry names is removed from outside the program
RemoveBlob(f) ==
  /\ \E h \in Range(tl[f]) :
       /\ dir[patch_dir(f)][h] # NoBlob
       /\ dir' = [dir EXCEPT ![patch_dir(f)][h] = NoBlob]
       /\ last' = [op |-> "remove_blob", arg |-> 0, res |-> "Ok",
                   n |-> Len(tl[f]), on |-> f, out |-> 0]
  /\ UNCHANGED <<project, versions, codec, race, pushed, live, tl, fork,
                 vcount, committed, hist, ncommit>>

\* load_version takes &self, so it can also be called on the child A that the
\* folder hands out through items()
\* the faults are a patch file of the first child, A, and the live file of
\* the last one, C : the first makes calls fail at A while C could go on,
\* the second leaves C with fewer versions than A
FaultCommit ==
  /\ \A f \in Files : Len(tl[f]) < MaxFaultVersions
  /\ FolderCommit

FaultIndices == 0..MaxFaultVersions

NextFault ==
  \/ \E f \in Files, c \in Written : Write(f, c)
  \/ Unlink("C")
  \/ RemoveBlob("A")
  \/ FaultCommit
  \/ \E i \in FaultIndices : FolderLoadVersion(i)
  \/ \E i \in FaultIndices : FolderDeleteVersion(i)
  \/ \E i \in FaultIndices : LoadVersion("A", i)

SpecFault == Init /\ [][NextFault]_vars

\* ------------------------- PatchTimeline, standalone, with blobs that vanish
\* the timeline of "A" driven through push and pop while patch files are
\* removed from outside
NextPopFail ==
  \/ \E p \in Patches : Push(p)
  \/ Pop
  \/ \E i \in ChainIndices : Get(i)
  \/ RemoveBlob("A")

SpecPopFail == Init /\ [][NextPopFail]_vars

\* ----------------------------------------------- Project over the file "A"
NextProject ==
  \/ \E c \in Written : Write("A", c)
  \/ Unlink("A")
  \/ ProjectNew
  \/ ProjectSave
  \/ \E i \in Indices : ProjectLoad(i)

SpecProject == Init /\ [][NextProject]_vars

\* ------------------------------------- TrackedFolder, two folders directly
\* the folder B (one file, C) and the folder E (no children), each called
\* on its own
Direct == {"B", EmptyFolder}

DirectDo(x, op, index) ==
  /\ LET r == item_do(op, index,
                      [tl |-> tl, dir |-> dir, live |-> live,
                       vcount |-> vcount], x)
     IN /\ tl' = r.st.tl
        /\ dir' = r.st.dir
        /\ live' = r.st.live
        /\ vcount' = r.st.vcount
        /\ last' = [op |-> op, arg |-> index, res |-> r.res,
                    n |-> vcount[x], on |-> x, out |-> 0]
        /\ hist' = hist
  /\ UNCHANGED <<project, versions, codec, race, pushed, fork, committed,
                 ncommit>>

DirectCommit(x) ==
  /\ vcount[x] <= MaxCommits
  /\ \A i \in 1..Len(Children(x)) : Len(tl[Children(x)[i]]) < MaxCommits
  /\ DirectDo(x, "commit", 0)
DirectLoadVersion(x, index) == DirectDo(x, "load_version", index)
DirectDeleteVersion(x, index) == DirectDo(x, "delete_version", index)

NextDirect ==
  \/ \E c \in Written : Write("C", c)
  \/ \E x \in Direct : DirectCommit(x)
  \/ \E x \in Direct, i \in FolderIndices : DirectLoadVersion(x, i)
  \/ \E x \in Direct, i \in FolderIndices : DirectDeleteVersion(x, i)

SpecDirect == Init /\ [][NextDirect]_vars

\* ------------- TrackedFolder, two folders directly, with a file that appears
\* a file is created at E/N after the folder E was built
NextCreate ==
  \/ \E c \in Written : Write("C", c)
  \/ \E c \in Written : Write(NewFile, c)
  \/ \E x \in Direct : DirectCommit(x)
  \/ \E x \in Direct, i \in FolderIndices : DirectLoadVersion(x, i)
  \/ \E x \in Direct, i \in FolderIndices : DirectDeleteVersion(x, i)

SpecCreate == Init /\ [][NextCreate]_vars

\* ------------------------------------------------------------------ claims

\* C1: in a timeline that is the only user of its directory, a blob file
\* for hash h exists exactly when h occurs in the chain
C1_BlobIffReferenced ==
  \A h \in Hashes : (dir[patch_dir("A")][h] # NoBlob) <=> (h \in Range(tl["A"]))

\* a pop that removed one of two references to a shared blob, next to a
\* hash that has no blob
C1_Witness ==
  /\ last.op = "pop" /\ last.res = "Ok"
  /\ last.arg \in Range(tl["A"])
  /\ dir[patch_dir("A")][last.arg] # NoBlob
  /\ \E h \in Hashes : dir[patch_dir("A")][h] = NoBlob

\* C2: load_version(i) writes the content the live file held at the i-th
\* of the commits that are in the chain
C2_LoadWritesCommitted ==
  [][(last'.op = "load_version" /\ last'.arg < Len(tl["A"]))
       => /\ last'.res = "Ok"
          /\ Len(committed["A"]) = Len(tl["A"])
          /\ live'["A"] = committed["A"][last'.arg + 1]]_vars

\* version 0 of three versions with different contents has been loaded
C2_Witness ==
  /\ last.op = "load_version" /\ last.res = "Ok" /\ last.arg = 0
  /\ Len(tl["A"]) = 3
  /\ Cardinality(Range(committed["A"])) = 3
  /\ live["A"] = committed["A"][1]

\* C7: a successful delete_version(index) with index < n leaves exactly the
\* versions [0, index), and load_version(index) then fails with
\* IndexOutOfRange or NoVersionsAvailable
C7_DeleteTruncates ==
  [][(last'.op = "delete_version" /\ last'.res = "Ok"
        /\ last'.arg < Len(tl["A"]))
       => /\ Len(tl'["A"]) = last'.arg
          /\ tl'["A"] = SubSeq(tl["A"], 1, last'.arg)
          /\ file_load_version(tl'["A"], dir'[patch_dir("A")], live'["A"],
                               last'.arg).res
               \in {"IndexOutOfRange", "NoVersionsAvailable"}]_vars

\* delete_version(1) on three versions
C7_Witness ==
  /\ last.op = "delete_version" /\ last.res = "Ok"
  /\ last.arg = 1 /\ last.n = 3
  /\ Len(tl["A"]) = 1

\* C8 (as claimed): after a successful delete_version(index) the live file
\* holds version index-1, or is empty when index = 0
C8_DeleteSetsLiveFile ==
  [][(last'.op = "delete_version" /\ last'.res = "Ok"
        /\ last'.arg < Len(tl["A"]))
       => live'["A"] = IF last'.arg = 0 THEN EmptyBuffer
                       ELSE committed["A"][last'.arg]]_vars

\* C9: pushing a patch whose blob already exists succeeds, changes no blob
\* file and appends exactly one chain entry
C9_PushDeduplicates ==
  [][(last'.op = "push" /\ dir[patch_dir("A")][Hash(last'.arg)] # NoBlob)
       => /\ last'.res = "Ok"
          /\ dir' = dir
          /\ tl'["A"] = Append(tl["A"], Hash(last'.arg))]_vars

\* the pushed hash is referenced twice and stored once
C9_Witness ==
  /\ last.op = "push" /\ last.res = "Ok"
  /\ Len(tl["A"]) = last.n + 1
  /\ \E i \in 1..last.n : tl["A"][i] = Hash(last.arg)
  /\ dir[patch_dir("A")][Hash(last.arg)] = last.arg

\* C10: a successful commit appends exactly one chain entry and keeps the
\* earlier entries, also when the file is unchanged
C10_CommitAppendsOne ==
  [][(last'.op = "commit" /\ last'.res = "Ok")
       => /\ Len(tl'["A"]) = Len(tl["A"]) + 1
          /\ SubSeq(tl'["A"], 1, Len(tl["A"])) = tl["A"]]_vars

\* a commit of a file unchanged since the previous commit
C10_Witness ==
  /\ last.op = "commit" /\ last.res = "Ok" /\ last.n >= 1
  /\ Len(tl["A"]) = last.n + 1
  /\ committed["A"][last.n + 1] = committed["A"][last.n]
  /\ tl["A"][last.n + 1] = Hash(PatchNew(live["A"], live["A"]))

\* C3 (as claimed): the item a successful split returns has exactly one
\* version, which reconstructs to what the live file held when split was
\* called
C3_ForkHoldsLiveFile ==
  [][(last'.op = "split" /\ last'.res = "Ok")
       => /\ Len(fork'.hashes) = 1
          /\ apply(fork'.hashes, dir'[patch_dir("A")], 0)
               = [res |-> "Ok", val |-> live["A"]]]_vars

\* C3 (amended): the item a successful split(index) returns has exactly one
\* version, which reconstructs to version index of the original; that is
\* also what split leaves in the live file
C3_ForkHoldsLoadedVersion ==
  [][(last'.op = "split" /\ last'.res = "Ok")
       => /\ fork'.exists
          /\ Len(fork'.hashes) = 1
          /\ apply(fork'.hashes, dir'[patch_dir("A")], 0)
               = [res |-> "Ok", val |-> committed["A"][last'.arg + 1]]
          /\ live'["A"] = committed["A"][last'.arg + 1]]_vars

\* a file with three versions has been forked at version 2
C3_Witness ==
  /\ last.op = "split" /\ last.res = "Ok"
  /\ last.n = 3 /\ last.arg = 2
  /\ fork.exists /\ Len(fork.hashes) = 1

\* C4: neither split nor any call on the forked item changes the chain of
\* the original
C4_ForkLeavesOriginalChain ==
  [][(last'.op \in {"split", "fork_commit", "fork_load_version",
                    "fork_delete_version"})
       => tl' = tl]_vars

\* the fork has committed a second version next to an original with two
C4_Witness ==
  /\ last.op = "fork_commit" /\ last.res = "Ok"
  /\ Len(fork.hashes) = 2
  /\ Len(tl["A"]) >= 2

\* C5 (as claimed): as long as every call returned success, the children of
\* every folder report the same version_count
C5_ChildrenAgree ==
  hist # "dirty"
    => \A x \in Folders :
         \A i, j \in 1..Len(Children(x)) :
           version_count(Children(x)[i]) = version_count(Children(x)[j])

\* C6: after k successful commits and nothing else, the folder, its
\* sub-folders and all files report k versions
C6_CommitsCounted ==
  hist = "commits"
    => \A x \in Files \cup Folders : version_count(x) = ncommit

\* two commits of the whole tree, and nothing else
C6_Witness ==
  /\ hist = "commits" /\ ncommit = 2
  /\ last.op = "commit" /\ last.res = "Ok"
  /\ version_count("Root") = 2 /\ version_count("C") = 2

\* C11: a file without versions reports version_count 0, and load_version
\* on it fails with NoVersionsAvailable and does not write the live file
C11_LoadOnEmptyFails ==
  [][/\ last.op = "new" => version_count("A") = 0
     /\ (last'.op = "load_version" /\ version_count("A") = 0)
          => /\ tl["A"] = <<>>
             /\ last'.res = "NoVersionsAvailable"
             /\ apply(tl["A"], dir[patch_dir("A")], 0).res
                  = "NoVersionsAvailable"
             /\ live' = live]_vars

\* load_version(0) on a file that never had a version and whose live file
\* is not empty
C11_Witness ==
  /\ last.op = "load_version" /\ last.arg = 0 /\ last.n = 0
  /\ last.res = "NoVersionsAvailable"
  /\ committed["A"] = <<>> /\ dir[patch_dir("A")] = EmptyDir
  /\ live["A"] # EmptyBuffer

\* C12: delete_version on a file without versions fails with
\* NoVersionsAvailable for every index and changes neither the chain, the
\* blob files nor the live file
C12_DeleteOnEmptyFails ==
  [][(last'.op = "delete_version" /\ tl["A"] = <<>>)
       => /\ last'.res = "NoVersionsAvailable"
          /\ tl' = tl /\ dir' = dir /\ live' = live]_vars

\* delete_version with an index above 0 on a file without versions
C12_Witness ==
  /\ last.op = "delete_version" /\ last.arg >= 1 /\ last.n = 0
  /\ last.res = "NoVersionsAvailable"
  /\ tl["A"] = <<>> /\ live["A"] # EmptyBuffer

\* C13: on a file with n >= 1 versions, load_version(index) with
\* index >= n fails with IndexOutOfRange and changes neither the live file
\* nor the chain
C13_LoadPastEndFails ==
  [][(last'.op = "load_version" /\ Len(tl["A"]) >= 1
        /\ last'.arg >= Len(tl["A"]))
       => /\ last'.res = "IndexOutOfRange"
          /\ live' = live /\ tl' = tl /\ dir' = dir]_vars

\* load_version(n) on a file with n = 2 versions whose live file differs
\* from the latest version
C13_Witness ==
  /\ last.op = "load_version" /\ last.res = "IndexOutOfRange"
  /\ last.n = 2 /\ last.arg = 2
  /\ Len(tl["A"]) = 2
  /\ live["A"] # committed["A"][2]

\* C14 (as claimed): on a file with n >= 1 versions, delete_version(index)
\* with index > n fails with IndexOutOfRange and leaves the chain unchanged
C14_DeletePastEndFails ==
  [][(last'.op = "delete_version" /\ Len(tl["A"]) >= 1
        /\ last'.arg > Len(tl["A"]))
       => /\ last'.res = "IndexOutOfRange"
          /\ tl' = tl]_vars

\* C15 (as claimed): a folder's version_count is the version_count of its
\* first child, and 0 when it has no children
C15_CountIsFirstChilds ==
  \A x \in Direct :
    version_count(x) = IF Children(x) = <<>> THEN 0
                       ELSE version_count(Children(x)[1])

\* C15 (amended): a folder's version_count is a counter of its own: a
\* successful commit adds one, a successful delete_version(index) sets it
\* to index, load_version and failed calls leave it as it is, and calls on
\* another folder do not change it
C15_CountIsOwnCounter ==
  [][last'.on \in Direct
       => /\ vcount'[last'.on] =
               IF last'.res # "Ok" THEN vcount[last'.on]
               ELSE CASE last'.op = "commit" -> vcount[last'.on] + 1
                      [] last'.op = "delete_version" -> last'.arg
                      [] OTHER -> vcount[last'.on]
          /\ \A y \in Direct \ {last'.on} : vcount'[y] = vcount[y]]_vars

\* the childless folder counts two versions after a delete_version(2) that
\* followed commits, next to a folder whose delete_version failed
C15_Witness ==
  /\ last.op = "delete_version" /\ last.res = "Ok"
  /\ last.on = EmptyFolder /\ last.arg = 2 /\ last.n = 3
  /\ version_count(EmptyFolder) = 2
  /\ Children(EmptyFolder) = <<>>
  /\ version_count("B") # version_count("C")

\* C16: on a folder without children commit succeeds and adds exactly one
\* to version_count, and delete_version(0) succeeds and sets it to 0
C16_ChildlessFolderCounts ==
  [][(last'.on = EmptyFolder /\ Children(EmptyFolder) = <<>>)
       => /\ last'.op = "commit"
               => /\ last'.res = "Ok"
                  /\ version_count(EmptyFolder)'
                       = version_count(EmptyFolder) + 1
          /\ (last'.op = "delete_version" /\ last'.arg = 0)
               => /\ last'.res = "Ok"
                  /\ version_count(EmptyFolder)' = 0]_vars

\* delete_version(0) on a childless folder that counted one version
C16_Witness ==
  /\ last.op = "delete_version" /\ last.res = "Ok"
  /\ last.on = EmptyFolder /\ last.arg = 0 /\ last.n = 1
  /\ version_count(EmptyFolder) = 0

\* C17: after a successful clear on a file with at least one version,
\* version_count is 0 and is_empty holds
C17_ClearRemovesAll ==
  [][(last'.op = "clear" /\ last'.res = "Ok" /\ version_count("A") >= 1)
       => /\ Len(tl'["A"]) = 0
          /\ is_empty(tl'["A"])
          /\ dir'[patch_dir("A")] = EmptyDir]_vars

\* clear on a file with three versions
C17_Witness ==
  /\ last.op = "clear" /\ last.res = "Ok" /\ last.n = 3
  /\ version_count("A") = 0 /\ is_empty(tl["A"])

C19_PopOnEmptyFails ==
  [][(last'.op = "pop" /\ tl["A"] = <<>>)
       => /\ last'.res = "NoVersionsAvailable"
          /\ tl' = tl /\ dir' = dir]_vars

\* a pop on an empty chain over an empty directory, reported as an error
C19_Witness ==
  /\ last.op = "pop" /\ last.res = "NoVersionsAvailable" /\ last.n = 0
  /\ tl["A"] = <<>> /\ dir[patch_dir("A")] = EmptyDir

\* C20: get(i) with i < len returns the patch that was handed to the push
\* that made position i, and get(i) with i >= len fails with
\* IndexOutOfRange
C20_GetReturnsPushed ==
  [][last'.op = "get"
       => /\ Len(pushed) = Len(tl["A"])
          /\ IF last'.arg < Len(tl["A"])
             THEN /\ last'.res = "Ok"
                  /\ last'.out = pushed[last'.arg + 1]
             ELSE last'.res = "IndexOutOfRange"]_vars

\* get(1) on a chain made by pushes of three different patches
C20_Witness ==
  /\ last.op = "get" /\ last.res = "Ok" /\ last.arg = 1
  /\ Len(tl["A"]) = 3
  /\ Cardinality(Range(pushed)) = 3
  /\ last.out = pushed[2]

\* C21: the chain is, in push order, the hashes of the pushes not undone by
\* a pop: push appends at the end, pop removes from the end, and the hash at
\* an index that stays never changes
C21_ChainInPushOrder ==
  [][/\ Len(tl'["A"]) = Len(pushed')
     /\ \A i \in 1..Len(pushed') : tl'["A"][i] = Hash(pushed'[i])
     /\ \A i \in 1..Len(tl["A"]) :
          i <= Len(tl'["A"]) => tl'["A"][i] = tl["A"][i]
     /\ last'.op = "push" => tl'["A"] = Append(tl["A"], Hash(last'.arg))
     /\ (last'.op = "pop" /\ tl["A"] # <<>>) => tl'["A"] = Front(tl["A"])
     /\ last'.op = "get" => tl' = tl]_vars

\* a push has taken the position behind two different entries
C21_Witness ==
  /\ last.op = "push" /\ last.n = 2
  /\ Len(tl["A"]) = 3
  /\ tl["A"][1] # tl["A"][2]
  /\ tl["A"][3] = Hash(last.arg)
  /\ pushed = <<pushed[1], pushed[2], last.arg>>

\* C22: a call on one of two files that share a patch store leaves the
\* chain and the blob files of the other file as they are, and every
\* version of the other file still loads the content it was committed with
C22_OtherTimelineUntouched ==
  [][\A f, g \in Files :
       (f # g /\ last'.on = f
          /\ last'.op \in {"commit", "load_version", "delete_version"})
         => /\ tl'[g] = tl[g]
            /\ dir'[patch_dir(g)] = dir[patch_dir(g)]
            /\ \A i \in 0..(Len(tl[g]) - 1) :
                 apply(tl'[g], dir'[patch_dir(g)], i)
                   = [res |-> "Ok", val |-> committed[g][i + 1]]]_vars

\* A has lost its second version while its first patch is byte-identical
\* to the first patch of C, each stored in its own directory
C22_Witness ==
  /\ last.op = "delete_version" /\ last.res = "Ok" /\ last.on = "A"
  /\ last.arg = 1 /\ last.n = 2
  /\ Len(tl["C"]) = 2
  /\ tl["A"] = <<tl["C"][1]>>
  /\ dir[patch_dir("A")][tl["A"][1]] = dir[patch_dir("C")][tl["C"][1]]
  /\ dir[patch_dir("A")][tl["C"][2]] = NoBlob
  /\ patch_dir("A") # patch_dir("C")

\* C23 (as claimed): building a TrackedItem, a TrackedFile or a
\* TrackedFolder from a path that does not exist, or that is neither a
\* regular file nor a directory, fails
C23_BadPathRejected ==
  [][(last'.op \in Constructors /\ last'.arg \in {Missing, Special})
       => last'.res # "Ok"]_vars

\* C24 (as claimed): when two instances push byte-identical patches into
\* one directory at the same time, every get issued after either push has
\* returned reads the complete patch
C24_RacingPushesBenign ==
  [][(last'.op = "race_get" /\ last'.arg < Len(race.hashes[last'.on])
        /\ race.patch["T1"] = race.patch["T2"]
        /\ \A t \in Timelines : race.pc[t] # "idle" \/ race.hashes[t] # <<>>)
       => /\ last'.res = "Ok"
          /\ last'.out = race.patch[last'.on]]_vars

\* C25 (as claimed): asking for a version index that does not exist, also
\* on an empty history, yields an error value and never a panic, in
\* TrackedFile::load_version, Timeline::get and TrackedBytes::load
C25_NoPanicOnMissingIndex ==
  [][(last'.op \in {"load_version", "get", "bytes_load"}
        /\ last'.arg >= last'.n)
       => last'.res \in {"IndexOutOfRange", "NoVersionsAvailable"}]_vars

\* C26: the patch made from the buffers s and t, applied to s, yields t
C26_PatchRoundTrip ==
  [][(last'.op = "patch_apply" /\ codec'.applied = codec.source)
       => /\ codec'.res = "Ok"
          /\ codec'.val = codec.target
          /\ patch_apply(from_buffers(codec.source, codec.target),
                         codec.source).val = codec.target]_vars

\* a patch between two buffers that differ in length and in their first
\* byte has been applied to its source
C26_Witness ==
  /\ last.op = "patch_apply" /\ last.res = "Ok"
  /\ codec.applied = codec.source
  /\ Len(codec.source) = 1 /\ Len(codec.target) = 2
  /\ codec.source[1] # codec.target[1]
  /\ codec.val = codec.target

\* C27: set_label fails with DuplicateLabel and changes nothing when a
\* version, the named one included, already carries the label; so no two
\* versions ever carry the same label
C27_LabelsUnique ==
  [][/\ (last'.op = "set_label" /\ contains_label(versions, last'.arg))
          => /\ last'.res = "DuplicateLabel"
             /\ versions' = versions
     /\ \A p, q \in 1..Len(versions') :
          (p # q /\ versions'[p].label # NoLabel)
            => versions'[p].label # versions'[q].label]_vars

\* a version was to be given the label it carries itself, next to another
\* labelled version
C27_Witness ==
  /\ last.op = "set_label" /\ last.res = "DuplicateLabel"
  /\ last.on = "Index" /\ last.n = 1
  /\ Len(versions) = 3
  /\ versions[2].label = last.arg
  /\ versions[3].label \notin {NoLabel, last.arg}

\* C28: in version_info.rs, once set_label has replaced a version's label L1
\* by L2 no version carries L1 and set_label assigning L1 to any version
\* succeeds; a set_label addressed through a label that no version carries
\* fails and changes no version
C28_ReplacedLabelIsFree ==
  [][last'.op = "version_info_set_label" =>
       /\ (last'.res = "Ok" /\ last'.out \notin {NoLabel, last'.arg})
            => /\ ~contains_label(versions', last'.out)
               /\ \A i \in 0..(Len(versions') - 1) :
                    LET r == version_info_set_label(
                               versions', [kind |-> "Index", val |-> i],
                               last'.out)
                    IN r.res = "Ok" /\ r.versions[i + 1].label = last'.out
       /\ (~contains_label(versions, last'.arg)
            /\ last'.on = "Index" /\ last'.n < Len(versions))
            => /\ last'.res = "Ok"
               /\ versions'[last'.n + 1].label = last'.arg
       /\ (last'.on = "Label" /\ ~contains_label(versions, last'.n))
            => /\ last'.res = "VersionIdentifierNotFound"
               /\ versions' = versions]_vars

\* the label 1 was given to a version that carried 2 before, so 2 is free
\* again, next to another version
C28_Witness ==
  /\ last.op = "version_info_set_label" /\ last.res = "Ok"
  /\ last.out = 2 /\ last.arg = 1
  /\ last.on = "Index" /\ last.n = 1
  /\ Len(versions) = 2
  /\ versions[2].label = 1

\* C29: after delete_version(index), delete_last or clear on a TrackedFile
\* every version that remains reconstructs to the bytes it had before, also
\* when a removed chain entry had the hash of one that remains
C29_RemainingVersionsIntact ==
  [][(last'.op \in {"delete_version", "delete_last", "clear"}
      /\ last'.on = "A")
       => \A j \in 0..(Len(tl'["A"]) - 1) :
            LET after == apply(tl'["A"], dir'[patch_dir("A")], j)
            IN /\ after.res = "Ok"
               /\ after = apply(tl["A"], dir[patch_dir("A")], j)
               /\ after.val = committed["A"][j + 1]]_vars

\* delete_version(1) removed the second of two entries with one hash; in
\* delete calls last.out is the chain entry at index before the call
C29_Witness ==
  /\ last.op = "delete_version" /\ last.res = "Ok" /\ last.on = "A"
  /\ last.arg = 1 /\ last.n = 2
  /\ Len(tl["A"]) = 1
  /\ tl["A"][1] = last.out

\* C30: when TrackedFolder::commit fails at a child it returns that error
\* at once: the children before it keep the version they just gained, the
\* children after it gain none, and the folder's version_count stays
C30_CommitStopsAtFailingChild ==
  [][(last'.op = "commit" /\ last'.on = "Root" /\ last'.res # "Ok")
       => /\ last'.res = "IoError"
          /\ vcount' = vcount
          /\ IF live["A"] = NoFile
             THEN tl' = tl /\ dir' = dir
             ELSE /\ live["C"] = NoFile
                  /\ Len(tl'["A"]) = Len(tl["A"]) + 1
                  /\ apply(tl'["A"], dir'[patch_dir("A")],
                           Len(tl["A"])).val = live["A"]
                  /\ tl'["C"] = tl["C"]]_vars

\* a commit of Root failed in the folder B, after the file A had gained its
\* second version
C30_Witness ==
  /\ last.op = "commit" /\ last.on = "Root" /\ last.res = "IoError"
  /\ live["C"] = NoFile /\ live["A"] # NoFile
  /\ Len(tl["A"]) = 2 /\ Len(tl["C"]) = 1
  /\ vcount["Root"] = 1 /\ vcount["B"] = 1

\* C31: when load_version(index) or delete_version(index) of a TrackedFolder
\* fails at a child, the first error is returned, the children before it
\* stay modified (live file overwritten, chain truncated), the children
\* after it are untouched and no folder's version_count changes
C31_FanOutStopsAtFailingChild ==
  [][(last'.op \in {"load_version", "delete_version"}
      /\ last'.on = "Root" /\ last'.res # "Ok")
       => LET st == [tl |-> tl, dir |-> dir, live |-> live,
                     vcount |-> vcount]
              a == file_do(last'.op, last'.arg, st, "A")
              c == file_do(last'.op, last'.arg, st, "C")
          IN /\ vcount' = vcount
             /\ IF a.res # "Ok"
                THEN /\ last'.res = a.res
                     /\ tl'["C"] = tl["C"]
                     /\ live'["C"] = live["C"]
                     /\ dir'[patch_dir("C")] = dir[patch_dir("C")]
                ELSE /\ last'.res = c.res
                     /\ tl'["A"] = a.st.tl["A"]
                     /\ live'["A"] = a.st.live["A"]
                     /\ dir'[patch_dir("A")] = a.st.dir[patch_dir("A")]
                     /\ last'.op = "load_version"
                          => live'["A"] = apply(tl["A"], dir[patch_dir("A")],
                                                last'.arg).val
                     /\ last'.op = "delete_version"
                          => Len(tl'["A"]) <= last'.arg]_vars

\* load_version(0) of Root failed in the folder B, whose file C has no
\* version and is gone from disk, after the file A was set to its first
C31_Witness ==
  /\ last.op = "load_version" /\ last.on = "Root" /\ last.arg = 0
  /\ last.res = "NoVersionsAvailable"
  /\ Len(tl["A"]) = 1 /\ Len(tl["C"]) = 0
  /\ live["A"] = apply(tl["A"], dir[patch_dir("A")], 0).val
  /\ live["C"] = NoFile

\* C32: load_version(index) on a TrackedFile or a TrackedFolder, whether it
\* succeeds or fails, changes no chain, no patch file and no version_count;
\* only live files can differ afterwards
C32_LoadVersionOnlyWritesLiveFiles ==
  [][last'.op = "load_version"
       => /\ tl' = tl
          /\ dir' = dir
          /\ vcount' = vcount
          /\ \A x \in Files \cup Folders :
               version_count(x)' = version_count(x)]_vars

\* load_version(0) of Root succeeded on a tree whose folders count one
\* version, and set both files to what was committed
C32_Witness ==
  /\ last.op = "load_version" /\ last.on = "Root" /\ last.res = "Ok"
  /\ last.arg = 0
  /\ vcount["Root"] = 1 /\ vcount["B"] = 1
  /\ Len(tl["A"]) = 1 /\ Len(tl["C"]) = 1
  /\ live["A"] = apply(tl["A"], dir[patch_dir("A")], 0).val
  /\ live["C"] = apply(tl["C"], dir[patch_dir("C")], 0).val

\* C33: the children of a TrackedFolder are those found at construction: a
\* commit, load_version or delete_version reaches exactly them, and a file
\* created under the folder's path afterwards never gains a version
C33_ChildrenFixedAtConstruction ==
  [][/\ tl'[NewFile] = <<>>
     /\ dir'[patch_dir(NewFile)] = EmptyDir
     /\ (last'.op \in {"commit", "load_version", "delete_version"}
         /\ last'.on \in Direct)
          => LET built == IF last'.on = "B" THEN {"C"} ELSE {}
             IN /\ \A p \in Paths \ built :
                     tl'[p] = tl[p] /\ live'[p] = live[p]
                /\ (last'.op = "commit" /\ last'.res = "Ok")
                     => \A p \in built : Len(tl'[p]) = Len(tl[p]) + 1
                /\ (last'.op = "delete_version" /\ last'.res = "Ok")
                     => \A p \in built : Len(tl'[p]) <= last'.arg]_vars

\* the folder E was committed while the file created at E/N was on disk
C33_Witness ==
  /\ last.op = "commit" /\ last.on = EmptyFolder /\ last.res = "Ok"
  /\ live[NewFile] \in Contents
  /\ tl[NewFile] = <<>>
  /\ vcount[EmptyFolder] = 1

\* C34: after a fork of an item every version of the original remains
\* loadable: each hash of the original's chain still has its patch file, and
\* load_version(i) yields for every i what it yielded before the fork
C34_OriginalLoadableAfterFork ==
  [][(last'.op = "split" /\ last'.res = "Ok")
       => \A i \in 0..(Len(tl'["A"]) - 1) :
            /\ dir'[patch_dir("A")][tl'["A"][i + 1]] # NoBlob
            /\ apply(tl'["A"], dir'[patch_dir("A")], i)
                 = apply(tl["A"], dir[patch_dir("A")], i)]_vars

\* C35: delete_version never increases version_count: for a TrackedFile or
\* TrackedFolder that reports n versions, version_count() is at most n
\* after delete_version(index) with any index, one past n included
C35_DeleteNeverIncreasesCount ==
  [][last'.op = "delete_version"
       => /\ \A f \in Files : Len(tl'[f]) <= Len(tl[f])
          /\ \A x \in Direct : vcount'[x] <= vcount[x]]_vars

\* C36: when push fails, the chain is unchanged and no patch file for the
\* hash is left behind, so every push that succeeds later, of the same patch
\* too, leaves a patch file that holds the whole patch
C36_FailedPushLeavesNothing ==
  [][last'.op = "race_push" /\ last'.on = "T1"
       => /\ last'.res # "Ok"
               => /\ race'.hashes["T1"] = race.hashes["T1"]
                  /\ dir'[patch_dir("A")][Hash(last'.arg)] = NoBlob
          /\ last'.res = "Ok"
               => dir'[patch_dir("A")][Hash(last'.arg)] = last'.arg]_vars

\* C37: when pop fails while it deletes the patch file, the chain is left
\* unchanged, the popped hash still being its last entry; so a failed pop
\* (and with it a delete_version, which is a loop of pops, that fails
\* part-way) leaves no patch file on disk that no chain entry names
C37_FailedPopKeepsChain ==
  [][(last'.op = "pop" /\ last'.res # "Ok")
       => /\ tl'["A"] = tl["A"]
          /\ \A h \in Hashes :
               dir'[patch_dir("A")][h] # NoBlob => h \in Range(tl'["A"])]_vars

\* C38: in VersionInfoManager, after any sequence of add_version, set_label,
\* remove_version, clear and fork, the i-th entry of versions() has index i,
\* and version_count() grows by exactly one with each add_version
C38_IndexIsPosition ==
  [][/\ \A p \in 1..Len(versions') : versions'[p].index = p - 1
     /\ last'.op = "add_version"
          => Len(versions') = Len(versions) + 1]_vars

\* a version was added as the third, behind one that carries a label
C38_Witness ==
  /\ last.op = "add_version" /\ last.n = 2
  /\ Len(versions) = 3
  /\ versions[3].index = 2
  /\ versions[1].label # NoLabel

\* C39: for a Project, after construction and any successful saves, versions()
\* has as many entries as the tracked item has versions, and versions()[i]
\* describes the content that load(i) restores
C39_InfosMatchVersions ==
  project.open
    => /\ Len(project.version_infos) = Len(tl["A"])
       /\ \A i \in 0..(Len(tl["A"]) - 1) :
            tracked_file_apply(tl["A"], dir[patch_dir("A")], i).val
              = project.version_infos[i + 1]

====
